---- MODULE Spec2Model ----
(***************************************************************************)
(* A model of ConfigClient (src/src/ConfigClient.ts): ordered endpoint     *)
(* fallback, the validate / read / transform / compare / callback / write  *)
(* pipeline, the polling timer, pause / resume and the override path.      *)
(*                                                                         *)
(* A call of getConfiguration or refresh is a task whose pc names the      *)
(* promise it awaits; one action runs the code between two awaits.  The    *)
(* fetches of tryFetch read and write no field of the client, so the walk  *)
(* of the endpoint list commutes with every other step and is one action.  *)
(* Providers are the defaults of the constructor (default transformer,     *)
(* lodash isEqual, a cache that holds one value and may hold one from an   *)
(* earlier run).  The fetch provider and the consumer                      *)
(* callback are the environment and answer nondeterministically; the       *)
(* validator is one that rejects the configurations of InvalidConfigs.     *)
(*                                                                         *)
(* Spec is the constructed client with these defaults.  SpecConstructor    *)
(* starts before new ConfigClient(options) runs.  SpecProviders gives the  *)
(* client a caller-supplied transformer and a cache provider whose write   *)
(* completes later.  SpecCache is a DefaultCacheProvider used on its own.  *)
(***************************************************************************)
EXTENDS Integers, Sequences, FiniteSets, Bags, TLC

\* ------------------------------------------------------------------ bounds
MaxEndpoints == 2
MaxTasks == 2
MaxTimers == 2
MaxPending == 2
MaxWrites == 3

\* ------------------------------------------------------------------ values
Undefined == "undefined"
EmptyString == ""
Raise == "<raise>"
ConfigValues == {"A", "B"}
InvalidConfigs == {"B"}
Intervals == {0, 5}
Overrides == {Undefined, "A"}
\* what the cache provider holds when the client is constructed: nothing (the
\* default in-memory provider) or a value a persistent provider kept
InitialCaches == {Undefined, "A"}

\* JavaScript truthiness of the values of the model
Truthy(v) == v \notin {Undefined, EmptyString}

\* what one call of the fetch provider can do: reject, or resolve with a value
FetchOutcomes == {Raise, EmptyString} \cup ConfigValues
\* what the consumer callback can do: reject, or resolve with a value
CallbackOutcomes == {Raise, Undefined} \cup ConfigValues

\* endpoint lists: the k-th endpoint is the URL "e<k>" or the empty string
EndpointName(k) == IF k = 1 THEN "e1" ELSE IF k = 2 THEN "e2" ELSE "e3"
EndpointLists ==
    UNION {{l \in [1..n -> {EmptyString, "e1", "e2", "e3"}] :
                \A k \in 1..n : l[k] \in {EmptyString, EndpointName(k)}} :
           n \in 1..MaxEndpoints}

\* the first position of a plan that resolves with a truthy value, or 0
FirstTruthy(plan) ==
    IF \E k \in DOMAIN plan : plan[k] # Raise /\ Truthy(plan[k])
    THEN CHOOSE k \in DOMAIN plan :
            /\ plan[k] # Raise /\ Truthy(plan[k])
            /\ \A j \in 1..(k - 1) : plan[j] = Raise \/ ~Truthy(plan[j])
    ELSE 0

\* no read of the cache provider has resolved
NoRead == "<none>"

NoError == [name |-> "none", endpoints |-> <<>>]
NoEvent == [status |-> "none", endpoint |-> Undefined,
            configuration |-> Undefined, error |-> NoError]

VARIABLES
    override,    \* this.override
    interval,    \* this.interval (0 stands for undefined)
    endpoints,   \* this.endpoints
    timeoutId,   \* this.timeoutId (0 stands for undefined)
    loaded,      \* this.loaded
    paused,      \* this.paused
    cache,       \* the value the cache provider holds
    timers,      \* the host's live timers, in creation order
    tasks,       \* the calls of getConfiguration / refresh in flight (a bag)
    last,        \* the call whose promise settled in the latest step, if any
    walk,        \* the walk of tryFetch that returned in the latest step, if any
    hist,        \* whether a cycle has succeeded, the value its endpoint returned,
                 \* and whether getConfiguration or refresh has been invoked
    callback,    \* whether this.callback is set
    constructed, \* whether the constructor has returned a client
    thrown,      \* what the constructor has thrown, if anything
    transform,   \* which transformer this.transformer is
    deferred,    \* whether the cache provider completes a write asynchronously
    pending,     \* the writes the cache provider has accepted and not completed
    written,     \* the values written to a DefaultCacheProvider used on its own
    got          \* what a read of that provider resolved with in the latest step

vars == <<override, interval, endpoints, timeoutId, loaded, paused, cache,
          timers, tasks, last, walk, hist, callback, constructed, thrown,
          transform, deferred, pending, written, got>>

\* what no method of the client assigns, this.endpoints apart
settings == <<override, interval, callback, constructed, thrown,
              transform, deferred, written, got>>

\* what no method of the client changes
config == <<endpoints, settings>>

\* ------------------------------------------------------------- providers
\* the fetch provider during one cycle: its answer for each position of the list
FetchPlans == [1..Len(endpoints) -> FetchOutcomes]

\* a transformer that hands on its input as it is
identityTransformer(c) == c

\* a transformer that yields undefined whatever its input
voidTransformer(c) == Undefined

\* defaultTransformer: its input, a falsy input collapsed to undefined
defaultTransformer(c) == IF Truthy(c) THEN c ELSE Undefined

\* the fetched values a caller-supplied transformer maps to the empty string
BlankConfigs == {"B"}

\* a caller-supplied transformer: a fetched value as it is, or the empty string
customTransformer(c) == IF c \in BlankConfigs THEN EmptyString ELSE c

Transformers == {"default", "custom"}

\* this.transformer: options.transformer, or the default
transformer(c) ==
    IF transform = "default" THEN defaultTransformer(c) ELSE customTransformer(c)

\* lodash isEqual on the values of the model
isEqual(a, b) == a = b

\* this.equality: the constructor's default
equality(a, b) == isEqual(a, b)

\* this.validator: whether the promise it returns for c rejects
validatorRejects(c) == c \in InvalidConfigs

\* the error the validator rejects with for c
validatorError(c) == [name |-> "ValidationError", config |-> c]

\* a report that drops the fetched value
onValidationErrorNoValue(e, c) == [error |-> e, config |-> Undefined]

\* this.onValidationError(validationError, data): the report it receives
onValidationError(e, c) == [error |-> e, config |-> c]

\* DefaultCacheProvider.read on the slot c: the value its promise resolves with
read(c) == c

\* a write that keeps the first value written
writeOnce(c, value) == IF c = Undefined THEN value ELSE c

\* a write that is dropped
writeDropped(c, value) == c

\* DefaultCacheProvider.write(value) on the slot c: the slot it leaves
write(c, value) == value

\* new ConfigurationFailedError(this.endpoints)
ConfigurationFailedError(eps) == [name |-> "ConfigurationFailedError", endpoints |-> eps]

\* ----------------------------------------------------------------- tasks
\* a call: where it is suspended, its locals, and what it has done so far
IdleTask ==
    \* op: "getConfiguration", "refresh", or "timer" for the refresh a timer runs
    [pc |-> "idle", op |-> "none", cycle |-> FALSE,
     ep |-> Undefined, data |-> Undefined, source |-> Undefined,
     target |-> Undefined, event |-> NoEvent, cbRet |-> Undefined,
     result |-> NoEvent,
     fetches |-> 0, validationErrors |-> <<>>, callbacks |-> 0,
     reads |-> 0, writes |-> 0, scheduled |-> <<>>, sawPaused |-> FALSE,
     \* it follows at once a getConfiguration that ended well
     afterGet |-> FALSE]

NoneInFlight == BagCardinality(tasks) = 0
Room == BagCardinality(tasks) < MaxTasks
Put(ts, t) == ts (+) SetToBag({t})
Take(ts, t) == ts (-) SetToBag({t})

NewTask(op) ==
    [IdleTask EXCEPT !.op = op,
                     !.afterGet = /\ op = "getConfiguration"
                                  /\ NoneInFlight
                                  /\ last.pc = "resolved"
                                  /\ last.op = "getConfiguration"
                                  /\ last.result.status # "error"]

\* ---------------------------------------------------------------- timers
\* a delay that forgets the conversion to milliseconds
PollingDelaySeconds == interval

\* the delay setPolling hands to setTimeout, in milliseconds
PollingDelay == interval * 1000

FreshTimerId(tm) ==
    CHOOSE i \in 1..(Len(tm) + 1) :
        /\ \A k \in 1..Len(tm) : tm[k].id # i
        /\ \A j \in 1..(i - 1) : \E k \in 1..Len(tm) : tm[k].id = j

setTimeout(tm, delay) == Append(tm, [id |-> FreshTimerId(tm), delay |-> delay])
clearTimeout(tm, id) == SelectSeq(tm, LAMBDA t : t.id # id)

\* a setPolling that schedules whatever the interval
setPollingAnyInterval(start, tm, tid) ==
    IF start
    THEN [timers |-> setTimeout(tm, PollingDelay), timeoutId |-> FreshTimerId(tm)]
    ELSE IF tid # 0
         THEN [timers |-> clearTimeout(tm, tid), timeoutId |-> tid]
         ELSE [timers |-> tm, timeoutId |-> tid]

\* setPolling(start): the timers and this.timeoutId it leaves
setPolling(start, tm, tid) ==
    IF start /\ interval # 0 /\ interval > 0
    THEN [timers |-> setTimeout(tm, PollingDelay), timeoutId |-> FreshTimerId(tm)]
    ELSE IF tid # 0
         THEN [timers |-> clearTimeout(tm, tid), timeoutId |-> tid]
         ELSE [timers |-> tm, timeoutId |-> tid]

\* a cycle that never restarts polling
RestartPollingNever(tm, tid) == [timers |-> tm, timeoutId |-> tid]

\* a cycle that restarts polling whether paused or not
RestartPollingAlways(tm, tid) == setPolling(TRUE, tm, tid)

\* if (!this.paused) this.setPolling(true): the timers and this.timeoutId left
RestartPolling(tm, tid) ==
    IF ~paused THEN setPolling(TRUE, tm, tid)
    ELSE [timers |-> tm, timeoutId |-> tid]

\* -------------------------------------------------------------- tryFetch
\* the locals of tryFetch, and what it has called so far
WalkStart ==
    \* endpoints: the local copy [...this.endpoints]; idx: how many it has shifted
    [endpoints |-> endpoints,
     cancel |-> FALSE, idx |-> 0, ep |-> Undefined, data |-> Undefined,
     fetched |-> <<>>, fetchErrors |-> <<>>, undefinedErrors |-> <<>>]

\* one turn of the while loop: shift the next endpoint; when it is truthy fetch
\* it and report a rejection as a FetchError, a falsy value as a
\* ConfigurationUndefinedError; a truthy value or a falsy endpoint ends the loop
TryFetchTurn(w, plan) ==
    LET k  == w.idx + 1
        ep == IF w.endpoints # <<>> THEN Head(w.endpoints) ELSE Undefined
        f  == [w EXCEPT !.idx = k, !.ep = ep,
                        !.endpoints = IF @ # <<>> THEN Tail(@) ELSE @]
    IN  IF Truthy(ep)
        THEN LET g == [f EXCEPT !.fetched = Append(@, k)]
             IN  IF plan[k] = Raise
                 THEN [g EXCEPT !.fetchErrors = Append(@, k)]
                 ELSE IF Truthy(plan[k])
                      THEN [g EXCEPT !.data = plan[k], !.cancel = TRUE]
                      ELSE [g EXCEPT !.data = plan[k],
                                     !.undefinedErrors = Append(@, k)]
        ELSE [f EXCEPT !.cancel = TRUE]

RECURSIVE TryFetchLoop(_, _)
TryFetchLoop(w, plan) ==
    IF w.cancel THEN w ELSE TryFetchLoop(TryFetchTurn(w, plan), plan)

\* a tryFetch that shifts this.endpoints itself, not a copy of it
tryFetchShiftsField(plan) ==
    LET w == TryFetchLoop(WalkStart, plan)
    IN  [endpoint |-> w.ep,
         configuration |-> w.data,
         error |-> IF Truthy(w.data) THEN NoError
                   ELSE ConfigurationFailedError(w.endpoints),
         thisEndpoints |-> w.endpoints,
         fetched |-> w.fetched, fetchErrors |-> w.fetchErrors,
         undefinedErrors |-> w.undefinedErrors]

\* the object tryFetch returns, with this.endpoints as it leaves it (it shifts
\* its copy only) and the record of its walk
tryFetch(plan) ==
    LET w == TryFetchLoop(WalkStart, plan)
    IN  [endpoint |-> w.ep,
         configuration |-> w.data,
         error |-> IF Truthy(w.data) THEN NoError
                   ELSE ConfigurationFailedError(endpoints),
         thisEndpoints |-> endpoints,
         fetched |-> w.fetched, fetchErrors |-> w.fetchErrors,
         undefinedErrors |-> w.undefinedErrors]

NoWalk == [done |-> FALSE, plan |-> <<>>, endpoint |-> Undefined,
           fetched |-> <<>>, fetchErrors |-> <<>>, undefinedErrors |-> <<>>]

\* ------------------------------------------------------ events and status
\* the event getOverride hands to the callback
OverrideEvent == [NoEvent EXCEPT !.configuration = override, !.status = "cached"]

\* a cached event that forgets the value read
CachedEventEmpty(source) == [NoEvent EXCEPT !.status = "cached"]

\* the event getConfiguration returns on a cache hit
CachedEvent(source) == [NoEvent EXCEPT !.configuration = source, !.status = "cached"]

\* an error event that hands on the falsy value of the last fetch
ErrorEventKeepsData(r) ==
    [status |-> "error", endpoint |-> r.endpoint, configuration |-> r.configuration,
     error |-> r.error]

\* the event refresh returns when tryFetch reports an error
ErrorEvent(r) ==
    [status |-> "error", endpoint |-> r.endpoint, configuration |-> Undefined,
     error |-> r.error]

\* a status with updated and equal exchanged
DeriveStatusSwapped(isLoaded, hasChanged) ==
    IF ~isLoaded THEN "loaded" ELSE IF hasChanged THEN "equal" ELSE "updated"

\* status of the event of a cycle
DeriveStatus(isLoaded, hasChanged) ==
    IF ~isLoaded THEN "loaded" ELSE IF hasChanged THEN "updated" ELSE "equal"

\* the candidate configuration whatever the callback returns
FinalConfigurationCandidateOnly(ret, fallback) == fallback

\* the callback's return value with no fallback
FinalConfigurationNoFallback(ret, fallback) == ret

\* (await this.callback(ev)) || fallback
FinalConfiguration(ret, fallback) == IF Truthy(ret) THEN ret ELSE fallback

\* a getConfiguration that never answers from the cache
CacheMiss(source) == FALSE

\* getConfiguration answers from the cache when the value read is truthy
CacheHit(source) == Truthy(source)

\* ------------------------------------------------------------- settling
Succeeded(t) == t.cycle /\ t.pc = "resolved" /\ t.result.status # "error"

\* the promise of call t settles, as call u with outcome and event: it is no
\* longer in flight
Settle(t, u, outcome, ev) ==
    LET done == [u EXCEPT !.pc = outcome, !.result = ev]
    IN  /\ last' = done
        /\ tasks' = Take(tasks, t)
        /\ hist' = IF Succeeded(done)
                   THEN [hist EXCEPT !.succeeded = TRUE, !.data = done.data]
                   ELSE hist

\* call t goes on as u, to its next await
Continue(t, u) ==
    /\ tasks' = Put(Take(tasks, t), u)
    /\ last' = IdleTask
    /\ UNCHANGED hist

NoThrow == [name |-> "none"]

\* new OptionsError(message, options)
OptionsError(message, options) ==
    [name |-> "OptionsError", message |-> message, options |-> options]

Init ==
    /\ override \in Overrides
    /\ interval \in Intervals
    /\ endpoints \in EndpointLists
    /\ timeoutId = 0
    /\ loaded = FALSE
    /\ paused = FALSE
    /\ cache \in InitialCaches
    /\ timers = <<>>
    /\ tasks = EmptyBag
    /\ last = IdleTask
    /\ walk = NoWalk
    /\ hist = [succeeded |-> FALSE, data |-> Undefined, called |-> FALSE]
    /\ callback = TRUE
    /\ constructed = TRUE
    /\ thrown = NoThrow
    /\ transform = "default"
    /\ deferred = FALSE
    /\ pending = <<>>
    /\ written = <<>>
    /\ got = NoRead

\* ------------------------------------------------------------- getOverride
\* getOverride up to its await: build the event and call the callback
GetOverrideBegin(t) ==
    [t EXCEPT !.pc = "ovcallback", !.event = OverrideEvent, !.callbacks = @ + 1]

\* the callback of getOverride settles
GetOverrideCallback(t) ==
    /\ t.pc = "ovcallback"
    /\ \E ret \in CallbackOutcomes :
        IF ret = Raise
        THEN /\ Settle(t, t, "rejected", NoEvent)
             /\ UNCHANGED loaded
        ELSE /\ loaded' = TRUE
             /\ Settle(t, [t EXCEPT !.cbRet = ret], "resolved",
                       [t.event EXCEPT !.configuration = FinalConfiguration(ret, override)])
    /\ walk' = NoWalk
    /\ UNCHANGED <<config, pending, timeoutId, paused, cache, timers>>

\* ----------------------------------------------------------------- refresh
\* refresh up to its first await, run by call t over the tasks ts and the live
\* timers tm: the override short-circuit, or setPolling(false) and the call of
\* tryFetch
RefreshBegin(t, ts, tm) ==
    IF Truthy(override)
    THEN /\ tasks' = Put(ts, GetOverrideBegin(t))
         /\ timers' = tm
         /\ UNCHANGED timeoutId
    ELSE LET sp == setPolling(FALSE, tm, timeoutId)
         IN  /\ tasks' = Put(ts, [t EXCEPT !.pc = "fetching", !.cycle = TRUE])
             /\ timers' = sp.timers
             /\ timeoutId' = sp.timeoutId

\* the caller invokes refresh()
refresh ==
    /\ Room
    /\ RefreshBegin(NewTask("refresh"), tasks, timers)
    /\ last' = IdleTask
    /\ walk' = NoWalk
    /\ hist' = [hist EXCEPT !.called = TRUE]
    /\ UNCHANGED <<config, pending, loaded, paused, cache>>

\* a live timer elapses: the host runs () => this.refresh()
TimerFires ==
    /\ timers # <<>>
    /\ Room
    /\ RefreshBegin(NewTask("timer"), tasks, Tail(timers))
    /\ last' = IdleTask
    /\ walk' = NoWalk
    /\ UNCHANGED <<config, pending, loaded, paused, cache, hist>>

\* tryFetch has walked the list and returned: the error event, or the call of
\* the validator
RefreshFetched(t) ==
    /\ t.pc = "fetching"
    /\ \E plan \in FetchPlans :
        LET r == tryFetch(plan)
            u == [t EXCEPT !.ep = r.endpoint, !.data = r.configuration,
                           !.fetches = Len(r.fetched)]
        IN  /\ walk' = [done |-> TRUE, plan |-> plan, endpoint |-> r.endpoint,
                        fetched |-> r.fetched, fetchErrors |-> r.fetchErrors,
                        undefinedErrors |-> r.undefinedErrors]
            /\ IF r.error # NoError
               THEN Settle(t, u, "resolved", ErrorEvent(r))
               ELSE Continue(t, [u EXCEPT !.pc = "validating"])
            /\ endpoints' = r.thisEndpoints
    /\ UNCHANGED <<settings, pending, timeoutId, loaded, paused, cache, timers>>

\* the validator settles (a rejection is reported to onValidationError with the
\* fetched value), then refresh calls this.cache.read()
RefreshValidated(t) ==
    /\ t.pc = "validating"
    /\ Continue(t, [t EXCEPT !.pc = "reading", !.source = read(cache), !.reads = @ + 1,
                             !.validationErrors =
                                 IF validatorRejects(t.data)
                                 THEN Append(@, onValidationError(validatorError(t.data),
                                                                  t.data))
                                 ELSE @])
    /\ walk' = NoWalk
    /\ UNCHANGED <<config, pending, timeoutId, loaded, paused, cache, timers>>

\* a cycle that counts its cache write before it calls the callback
RefreshReadWritesFirst(t) ==
    LET target == transformer(t.data)
        hasChanged == ~equality(t.source, target)
        ev == [status |-> DeriveStatus(loaded, hasChanged), endpoint |-> t.ep,
               configuration |-> target, error |-> NoError]
    IN  /\ t.pc = "reading"
        /\ Continue(t, [t EXCEPT !.pc = "callback", !.target = target, !.event = ev,
                                 !.source = Undefined, !.writes = @ + 1,
                                 !.callbacks = @ + 1])
        /\ walk' = NoWalk
        /\ UNCHANGED <<config, pending, timeoutId, loaded, paused, cache, timers>>

\* the cache read settles: transform, compare, build the event, call the
\* callback; source and data are dead from here on
RefreshRead(t) ==
    LET target == transformer(t.data)
        hasChanged == ~equality(t.source, target)
        ev == [status |-> DeriveStatus(loaded, hasChanged), endpoint |-> t.ep,
               configuration |-> target, error |-> NoError]
    IN  /\ t.pc = "reading"
        /\ Continue(t, [t EXCEPT !.pc = "callback", !.target = target, !.event = ev,
                                 !.source = Undefined, !.callbacks = @ + 1])
        /\ walk' = NoWalk
        /\ UNCHANGED <<config, pending, timeoutId, loaded, paused, cache, timers>>

\* this.cache.write(configuration), not awaited: the default provider has
\* written when the call returns, a deferred one has only accepted the write
CacheWrite(configuration) ==
    IF deferred
    THEN /\ Len(pending) < MaxPending
         /\ pending' = Append(pending, configuration)
         /\ UNCHANGED cache
    ELSE /\ cache' = write(cache, configuration)
         /\ UNCHANGED pending

\* a cycle that sets the loaded flag even when the callback raises
RefreshCallbackLoadsAnyway(t) ==
    /\ t.pc = "callback"
    /\ \E ret \in CallbackOutcomes :
        IF ret = Raise
        THEN /\ Settle(t, t, "rejected", NoEvent)
             /\ loaded' = TRUE
             /\ UNCHANGED <<cache, pending, timers, timeoutId>>
        ELSE LET configuration == FinalConfiguration(ret, t.target)
                 sp == RestartPolling(timers, timeoutId)
             IN  /\ Len(sp.timers) <= MaxTimers
                 /\ CacheWrite(configuration)
                 /\ loaded' = TRUE
                 /\ timers' = sp.timers
                 /\ timeoutId' = sp.timeoutId
                 /\ Settle(t, [t EXCEPT !.cbRet = ret, !.writes = @ + 1,
                                        !.sawPaused = paused,
                                        !.scheduled = SubSeq(sp.timers, Len(timers) + 1, Len(sp.timers))],
                           "resolved", [t.event EXCEPT !.configuration = configuration])
    /\ walk' = NoWalk
    /\ UNCHANGED <<config, paused>>

\* the callback settles: write the cache, set loaded, restart polling unless paused
RefreshCallback(t) ==
    /\ t.pc = "callback"
    /\ \E ret \in CallbackOutcomes :
        IF ret = Raise
        THEN /\ Settle(t, t, "rejected", NoEvent)
             /\ UNCHANGED <<cache, pending, loaded, timers, timeoutId>>
        ELSE LET configuration == FinalConfiguration(ret, t.target)
                 sp == RestartPolling(timers, timeoutId)
             IN  /\ Len(sp.timers) <= MaxTimers
                 /\ CacheWrite(configuration)
                 /\ loaded' = TRUE
                 /\ timers' = sp.timers
                 /\ timeoutId' = sp.timeoutId
                 /\ Settle(t, [t EXCEPT !.cbRet = ret, !.writes = @ + 1,
                                        !.sawPaused = paused,
                                        !.scheduled = SubSeq(sp.timers, Len(timers) + 1, Len(sp.timers))],
                           "resolved", [t.event EXCEPT !.configuration = configuration])
    /\ walk' = NoWalk
    /\ UNCHANGED <<config, paused>>

\* -------------------------------------------------------- getConfiguration
\* the caller invokes getConfiguration(): getOverride, or this.cache.read()
getConfiguration ==
    LET t == NewTask("getConfiguration")
    IN  /\ Room
        /\ tasks' = Put(tasks, IF Truthy(override)
                               THEN GetOverrideBegin(t)
                               ELSE [t EXCEPT !.pc = "getread", !.source = read(cache),
                                              !.reads = @ + 1])
        /\ last' = IdleTask
        /\ walk' = NoWalk
        /\ hist' = [hist EXCEPT !.called = TRUE]
        /\ UNCHANGED <<config, pending, timeoutId, loaded, paused, cache, timers>>

\* the cache read of getConfiguration settles: the cached event, or refresh()
GetConfigurationRead(t) ==
    /\ t.pc = "getread"
    /\ IF CacheHit(t.source)
       THEN /\ Settle(t, t, "resolved", CachedEvent(t.source))
            /\ UNCHANGED <<timers, timeoutId>>
       ELSE /\ RefreshBegin(t, Take(tasks, t), timers)
            /\ last' = IdleTask
            /\ UNCHANGED hist
    /\ walk' = NoWalk
    /\ UNCHANGED <<config, pending, loaded, paused, cache>>

\* ---------------------------------------------------------- pause / resume
\* a pause that resets the loaded flag
pauseResetsLoaded ==
    LET sp == setPolling(FALSE, timers, timeoutId)
    IN  /\ paused' = TRUE
        /\ loaded' = FALSE
        /\ timers' = sp.timers
        /\ timeoutId' = sp.timeoutId
        /\ last' = IdleTask
        /\ walk' = NoWalk
        /\ UNCHANGED <<config, pending, cache, tasks, hist>>

pause ==
    LET sp == setPolling(FALSE, timers, timeoutId)
    IN  /\ paused' = TRUE
        /\ timers' = sp.timers
        /\ timeoutId' = sp.timeoutId
        /\ last' = IdleTask
        /\ walk' = NoWalk
        /\ UNCHANGED <<config, pending, loaded, cache, tasks, hist>>

resume ==
    LET sp == setPolling(TRUE, timers, timeoutId)
    IN  /\ Len(sp.timers) <= MaxTimers
        /\ paused' = FALSE
        /\ timers' = sp.timers
        /\ timeoutId' = sp.timeoutId
        /\ last' = IdleTask
        /\ walk' = NoWalk
        /\ UNCHANGED <<config, pending, loaded, cache, tasks, hist>>

\* ------------------------------------------------------------ constructor
\* options.endpoints left out: written as the sequence of undefined alone,
\* which no endpoint list is
MissingEndpoints == <<Undefined>>

\* the options new ConfigClient(options) can be given: endpoints missing
\* (undefined), empty or a list; a callback or none
OptionEndpoints == {MissingEndpoints, <<>>} \cup EndpointLists

\* before the constructor runs there is no client: override, interval,
\* endpoints, cache and callback hold the values of the options
NoClient ==
    /\ override \in Overrides
    /\ interval \in Intervals
    /\ endpoints \in OptionEndpoints
    /\ cache \in InitialCaches
    /\ callback \in BOOLEAN
    /\ constructed = FALSE
    /\ thrown = NoThrow
    /\ timeoutId = 0
    /\ loaded = FALSE
    /\ paused = FALSE
    /\ timers = <<>>
    /\ tasks = EmptyBag
    /\ last = IdleTask
    /\ walk = NoWalk
    /\ hist = [succeeded |-> FALSE, data |-> Undefined, called |-> FALSE]
    /\ transform = "default"
    /\ deferred = FALSE
    /\ pending = <<>>
    /\ written = <<>>
    /\ got = NoRead

\* a constructor that tests the endpoints only
OptionsProblemEndpointsOnly(eps, cb) ==
    IF eps = <<>> THEN "Missing endpoints" ELSE "none"

\* the two tests of the constructor, in order: the message of the OptionsError
\* it throws, or none
OptionsProblem(eps, cb) ==
    IF eps = <<>> THEN "Missing endpoints"
    ELSE IF ~cb THEN "Missing callback method"
    ELSE "none"

\* new ConfigClient(options): assign the fields, throw on bad options, else
\* call refresh() when options.initialize is true
\* a constructor that never calls refresh
ConstructWithoutRefresh(initialize) ==
    LET options == [override |-> override, interval |-> interval,
                    endpoints |-> endpoints, cache |-> cache,
                    callback |-> callback, initialize |-> initialize]
        eps == IF endpoints = MissingEndpoints THEN <<>> ELSE endpoints
        problem == OptionsProblem(eps, callback)
    IN  /\ endpoints' = eps
        /\ loaded' = FALSE
        /\ paused' = FALSE
        /\ IF problem # "none"
           THEN /\ thrown' = OptionsError(problem, options)
                /\ UNCHANGED <<constructed, tasks, timers, timeoutId, hist>>
           ELSE /\ constructed' = TRUE
                /\ UNCHANGED <<thrown, tasks, timers, timeoutId, hist>>

\* new ConfigClient(options) for one value of options.initialize: assign the
\* fields, throw on bad options, else call refresh() when initialize is true
Construct(initialize) ==
    LET options == [override |-> override, interval |-> interval,
                    endpoints |-> endpoints, cache |-> cache,
                    callback |-> callback, initialize |-> initialize]
        eps == IF endpoints = MissingEndpoints THEN <<>> ELSE endpoints
        problem == OptionsProblem(eps, callback)
    IN  /\ endpoints' = eps
        /\ loaded' = FALSE
        /\ paused' = FALSE
        /\ IF problem # "none"
           THEN /\ thrown' = OptionsError(problem, options)
                /\ UNCHANGED <<constructed, tasks, timers, timeoutId, hist>>
           ELSE /\ constructed' = TRUE
                /\ UNCHANGED thrown
                /\ IF initialize
                   THEN /\ RefreshBegin(NewTask("refresh"), tasks, timers)
                        /\ hist' = [hist EXCEPT !.called = TRUE]
                   ELSE UNCHANGED <<tasks, timers, timeoutId, hist>>

\* the caller runs new ConfigClient(options), with options.initialize true or
\* not (absent counts as false)
constructor ==
    /\ ~constructed
    /\ thrown = NoThrow
    /\ \E initialize \in BOOLEAN : Construct(initialize)
    /\ UNCHANGED <<override, interval, cache, callback, last, walk,
                   transform, deferred, pending, written, got>>

Next ==
    \/ getConfiguration
    \/ refresh
    \/ TimerFires
    \/ \E t \in BagToSet(tasks) : GetConfigurationRead(t)
    \/ \E t \in BagToSet(tasks) : RefreshFetched(t)
    \/ \E t \in BagToSet(tasks) : RefreshValidated(t)
    \/ \E t \in BagToSet(tasks) : RefreshRead(t)
    \/ \E t \in BagToSet(tasks) : RefreshCallback(t)
    \/ \E t \in BagToSet(tasks) : GetOverrideCallback(t)
    \/ pause
    \/ resume

Spec == Init /\ [][Next]_vars

\* the client from its construction on
NextConstructor ==
    \/ constructor
    \/ constructed /\ Next

SpecConstructor == NoClient /\ [][NextConstructor]_vars

\* ------------------------------------------- caller-supplied providers
\* a deferred cache provider completes its oldest accepted write
CacheWriteCompletes ==
    /\ pending # <<>>
    /\ cache' = write(cache, Head(pending))
    /\ pending' = Tail(pending)
    /\ last' = IdleTask
    /\ walk' = NoWalk
    /\ UNCHANGED <<config, timeoutId, loaded, paused, timers, tasks, hist>>

\* a client of one endpoint (polling when in override mode, not polling
\* otherwise), with the default or a caller-supplied transformer and the default
\* or a deferred cache provider
InitProviders ==
    /\ override \in Overrides
    /\ interval = (IF Truthy(override) THEN 5 ELSE 0)
    /\ endpoints = <<"e1">>
    /\ timeoutId = 0
    /\ loaded = FALSE
    /\ paused = FALSE
    /\ cache = Undefined
    /\ timers = <<>>
    /\ tasks = EmptyBag
    /\ last = IdleTask
    /\ walk = NoWalk
    /\ hist = [succeeded |-> FALSE, data |-> Undefined, called |-> FALSE]
    /\ callback = TRUE
    /\ constructed = TRUE
    /\ thrown = NoThrow
    /\ transform \in Transformers
    /\ deferred \in BOOLEAN
    /\ pending = <<>>
    /\ written = <<>>
    /\ got = NoRead

NextProviders ==
    \/ Next
    \/ CacheWriteCompletes

SpecProviders == InitProviders /\ [][NextProviders]_vars

\* ------------------------------------------------ polling left to itself
\* a polling client that is never paused, with a first endpoint that can answer
InitPolling ==
    /\ override = Undefined
    /\ interval = 5
    /\ endpoints \in {l \in EndpointLists : Truthy(l[1])}
    /\ timeoutId = 0
    /\ loaded = FALSE
    /\ paused = FALSE
    /\ cache \in InitialCaches
    /\ timers = <<>>
    /\ tasks = EmptyBag
    /\ last = IdleTask
    /\ walk = NoWalk
    /\ hist = [succeeded |-> FALSE, data |-> Undefined, called |-> FALSE]
    /\ callback = TRUE
    /\ constructed = TRUE
    /\ thrown = NoThrow
    /\ transform = "default"
    /\ deferred = FALSE
    /\ pending = <<>>
    /\ written = <<>>
    /\ got = NoRead

\* the consumer calls only until a cycle has succeeded, and only while the
\* calls in flight and the live timers together are fewer than MaxTimers
ConsumerMayCall ==
    /\ ~hist.succeeded
    /\ BagCardinality(tasks) + Len(timers) < MaxTimers

\* tryFetch returns with a configuration: some endpoint answered
RefreshFetchedWell(t) == RefreshFetched(t) /\ last'.pc # "resolved"

\* the callback resolves
RefreshCallbackResolved(t) == RefreshCallback(t) /\ last'.pc = "resolved"

NextPolling ==
    \/ ConsumerMayCall /\ getConfiguration
    \/ ConsumerMayCall /\ refresh
    \/ TimerFires
    \/ \E t \in BagToSet(tasks) : GetConfigurationRead(t)
    \/ \E t \in BagToSet(tasks) : RefreshFetchedWell(t)
    \/ \E t \in BagToSet(tasks) : RefreshValidated(t)
    \/ \E t \in BagToSet(tasks) : RefreshRead(t)
    \/ \E t \in BagToSet(tasks) : RefreshCallbackResolved(t)

\* the host lets a live timer elapse, and every promise a call awaits settles
FairPolling ==
    /\ WF_vars(TimerFires)
    /\ WF_vars(\E t \in BagToSet(tasks) : GetConfigurationRead(t))
    /\ WF_vars(\E t \in BagToSet(tasks) : RefreshFetchedWell(t))
    /\ WF_vars(\E t \in BagToSet(tasks) : RefreshValidated(t))
    /\ WF_vars(\E t \in BagToSet(tasks) : RefreshRead(t))
    /\ WF_vars(\E t \in BagToSet(tasks) : RefreshCallbackResolved(t))

SpecPolling == InitPolling /\ [][NextPolling]_vars /\ FairPolling

\* ------------------------------------- the default cache provider alone
\* the values write can be handed: a configuration or a falsy value
CacheValues == {Undefined, EmptyString} \cup ConfigValues

\* the fields of the client, which a provider used on its own leaves alone
client == <<override, interval, endpoints, callback, constructed, thrown,
            transform, deferred, pending, timeoutId, loaded, paused, timers,
            tasks, last, walk, hist>>

\* new DefaultCacheProvider(): the slot holds undefined; no client is at work
DefaultCacheProvider ==
    /\ cache = Undefined
    /\ written = <<>>
    /\ got = NoRead
    /\ override = Undefined
    /\ interval = 0
    /\ endpoints = <<"e1">>
    /\ timeoutId = 0
    /\ loaded = FALSE
    /\ paused = FALSE
    /\ timers = <<>>
    /\ tasks = EmptyBag
    /\ last = IdleTask
    /\ walk = NoWalk
    /\ hist = [succeeded |-> FALSE, data |-> Undefined, called |-> FALSE]
    /\ callback = TRUE
    /\ constructed = FALSE
    /\ thrown = NoThrow
    /\ transform = "default"
    /\ deferred = FALSE
    /\ pending = <<>>

\* a caller runs write(value)
CacheProviderWrite ==
    /\ Len(written) < MaxWrites
    /\ \E value \in CacheValues :
        /\ cache' = write(cache, value)
        /\ written' = Append(written, value)
    /\ got' = NoRead
    /\ UNCHANGED client

\* a caller runs read() and its promise resolves
CacheProviderRead ==
    /\ got' = read(cache)
    /\ UNCHANGED <<cache, written, client>>

NextCache ==
    \/ CacheProviderWrite
    \/ CacheProviderRead

SpecCache == DefaultCacheProvider /\ [][NextCache]_vars

\* ============================================================= properties
\* how many times x occurs in the sequence q
Count(q, x) == Cardinality({i \in 1..Len(q) : q[i] = x})

\* the call of tasks' that t has become in a step of RefreshRead(t)
AfterRead(t, u) ==
    /\ u.pc = "callback" /\ u.op = t.op /\ u.ep = t.ep /\ u.data = t.data
    /\ CopiesIn(u, tasks') = CopiesIn(u, tasks) + 1

\* C1: when position w of the endpoint list is the first whose fetch resolves
\* with a truthy value, tryFetch returns endpoint w and the cycle goes on with
\* it; positions 1..w are fetched once each, in order, and no later one; each
\* position before w is reported exactly once, as a FetchError when its fetch
\* raised and as a ConfigurationUndefinedError (and no FetchError) when it
\* resolved with a falsy value.
C1_FirstTruthyEndpointWins ==
    (walk.done /\ FirstTruthy(walk.plan) # 0) =>
        LET w == FirstTruthy(walk.plan)
        IN  /\ walk.endpoint = endpoints[w]
            /\ \E u \in BagToSet(tasks) : u.pc = "validating" /\ u.ep = endpoints[w]
            /\ walk.fetched = [k \in 1..w |-> k]
            /\ \A j \in 1..(w - 1) :
                IF walk.plan[j] = Raise
                THEN Count(walk.fetchErrors, j) = 1 /\ Count(walk.undefinedErrors, j) = 0
                ELSE Count(walk.fetchErrors, j) = 0 /\ Count(walk.undefinedErrors, j) = 1

\* C2: when every fetch of a cycle raises or resolves with a falsy value, the
\* call (getConfiguration or refresh) resolves with status error, configuration
\* undefined and a ConfigurationFailedError naming the whole configured list,
\* and it has written the cache no time.
C2_AllEndpointsFail ==
    (walk.done /\ FirstTruthy(walk.plan) = 0) =>
        /\ last.pc = "resolved"
        /\ last.cycle
        /\ last.result.status = "error"
        /\ last.result.configuration = Undefined
        /\ last.result.error.name = "ConfigurationFailedError"
        /\ last.result.error.endpoints = endpoints
        /\ last.writes = 0
        /\ last.callbacks = 0

C2_Witness ==
    /\ walk.done /\ FirstTruthy(walk.plan) = 0
    /\ Len(endpoints) = 2 /\ walk.fetched = <<1, 2>>
    /\ walk.plan = <<Raise, EmptyString>>
    /\ last.op = "getConfiguration" /\ last.result.status = "error"

\* C3: at most one timer is live in every reachable state.
C3_AtMostOneLiveTimer == Len(timers) <= 1

C5_SameUpstreamIsEqual ==
    [][\A t \in BagToSet(tasks) :
          (RefreshRead(t) /\ hist.succeeded /\ t.source = cache /\ t.data = hist.data) =>
              \E u \in BagToSet(tasks') : AfterRead(t, u) /\ u.event.status = "equal"]_vars

\* C6: a getConfiguration called right after a getConfiguration that ended
\* well, with no call in flight, answers from the cache: it resolves with
\* status cached and the value it read, fetches nothing and starts no cycle.
C6_GetConfigurationIdempotent ==
    ~Truthy(override) =>
        /\ \A t \in BagToSet(tasks) :
              t.afterGet => t.pc = "getread" /\ Truthy(t.source) /\ t.fetches = 0
        /\ last.afterGet =>
              /\ last.pc = "resolved"
              /\ ~last.cycle
              /\ last.result.status = "cached"
              /\ Truthy(last.source)
              /\ last.result.configuration = last.source
              /\ last.fetches = 0

C6_Witness ==
    /\ ~Truthy(override)
    /\ last.afterGet /\ last.pc = "resolved"
    /\ last.result.status = "cached" /\ last.result.configuration = "B"
    /\ hist.succeeded

\* C7: with an override, every call is suspended on its one callback and has
\* fetched nothing, read and written no cache and scheduled no timer; a call
\* that resolves carries status cached and the callback's truthy return value or
\* else the override; no step of a call changes the cache or adds a timer.
C7_OverrideMode ==
    [][Truthy(override) =>
        /\ \A t \in BagToSet(tasks') :
              /\ t.pc = "ovcallback" /\ t.event.status = "cached"
              /\ t.callbacks = 1 /\ t.fetches = 0 /\ t.reads = 0 /\ t.writes = 0
        /\ last'.pc = "resolved" =>
              /\ last'.result.status = "cached"
              /\ last'.result.configuration =
                    IF Truthy(last'.cbRet) THEN last'.cbRet ELSE override
              /\ last'.callbacks = 1 /\ last'.fetches = 0
              /\ last'.reads = 0 /\ last'.writes = 0 /\ last'.scheduled = <<>>
        /\ tasks' # tasks => cache' = cache /\ Len(timers') <= Len(timers)]_vars

C7_Witness ==
    /\ Truthy(override)
    /\ last.pc = "resolved" /\ last.op = "refresh"
    /\ last.cbRet = "B" /\ last.result.configuration = "B"
    /\ interval = 5

\* C8: with an override no timer is live in any reachable state.
C8_OverrideNoLiveTimer == Truthy(override) => timers = <<>>

\* C9: without override, with interval n > 0 and not paused, a cycle that
\* succeeds schedules exactly one timer, of n * 1000 ms (5000 for n = 5), and
\* that timer is live; a timer that elapses starts exactly one cycle.
C9_PollingSchedule ==
    [][~Truthy(override) =>
        /\ (Succeeded(last') /\ ~last'.sawPaused /\ interval > 0) =>
              /\ Len(last'.scheduled) = 1
              /\ last'.scheduled[1].delay = interval * 1000
              /\ interval = 5 => last'.scheduled[1].delay = 5000
              /\ Len(timers') = Len(timers) + 1
              /\ timers'[Len(timers')] = last'.scheduled[1]
        /\ TimerFires =>
              /\ BagCardinality(tasks') = BagCardinality(tasks) + 1
              /\ \E u \in BagToSet(tasks') :
                    /\ u.pc = "fetching" /\ u.op = "timer" /\ u.fetches = 0
                    /\ CopiesIn(u, tasks') = CopiesIn(u, tasks) + 1]_vars

C9_Witness ==
    /\ ~Truthy(override) /\ interval = 5
    /\ Succeeded(last) /\ last.op = "timer" /\ ~last.sawPaused
    /\ Len(last.scheduled) = 1 /\ last.scheduled[1].delay = 5000
    /\ timers # <<>>

\* C10: when pause() returns the paused flag is set and no timer is live.
C10_PauseLeavesNoTimer ==
    [][pause => paused' /\ timers' = <<>>]_vars

\* C11: resume() clears the paused flag and starts no call; with an interval
\* above 0 it adds exactly one timer, of interval * 1000 ms, and that timer is
\* the next to elapse, so the next fetch is the one it starts.
C11_ResumeRestartsTimer ==
    [][(resume /\ interval > 0) =>
          /\ ~paused'
          /\ tasks' = tasks
          /\ Len(timers') = Len(timers) + 1
          /\ timers'[Len(timers')].delay = interval * 1000
          /\ timers'[1] = timers'[Len(timers')]]_vars

\* C12: a cycle whose callback settles while the paused flag is set leaves the
\* timers and this.timeoutId as they are and has scheduled nothing, whenever
\* the cycle began.
C12_PausedCycleSchedulesNothing ==
    [][/\ \A t \in BagToSet(tasks) :
            (RefreshCallback(t) /\ paused) =>
                timers' = timers /\ timeoutId' = timeoutId
       /\ (Succeeded(last') /\ paused) => last'.scheduled = <<>>]_vars

C12_Witness ==
    /\ paused /\ interval = 5 /\ timeoutId = 1
    /\ Succeeded(last) /\ last.op = "timer" /\ last.sawPaused
    /\ last.scheduled = <<>> /\ timers = <<>>

\* C13: when a cycle has ended with status error and no call is in flight, no
\* timer is live, leaving aside the one this.timeoutId tracks (the latest one
\* started, when resume() or another cycle started one while the cycle ran).
C13_NoTimerAfterError ==
    (/\ last.cycle /\ last.pc = "resolved" /\ last.result.status = "error"
     /\ NoneInFlight) =>
        \A k \in 1..Len(timers) : timers[k].id = timeoutId

\* C14: a cycle that succeeds hands the transformed fetched value to the
\* callback; its final configuration is the callback's return value when
\* truthy and that candidate otherwise; it writes the cache once, with the
\* final configuration, and returns it in its event.
C14_FinalConfiguration ==
    Succeeded(last) =>
        LET final == IF Truthy(last.cbRet) THEN last.cbRet ELSE last.target
        IN  /\ last.target = transformer(last.data)
            /\ last.event.configuration = last.target
            /\ last.result.configuration = final
            /\ last.result.status = last.event.status
            /\ last.result.endpoint = last.ep
            /\ last.writes = 1
            /\ cache = final

C14_Witness ==
    /\ Succeeded(last)
    /\ last.data = "A" /\ last.cbRet = "B"
    /\ last.result.configuration = "B" /\ cache = "B"

\* C15: a cycle whose fetched value the validator rejects goes on: once past
\* the validator it holds exactly one validation report, with the validator's
\* error and the raw fetched value; it calls the callback with the transformed
\* value, and when it succeeds it carries a non-error status and has written
\* the cache (with that transformed value unless the callback replaced it).  A
\* cycle whose value the validator accepts holds no report.
C15_ValidationIsAdvisory ==
    LET Reports(t) ==
            IF t.data \in InvalidConfigs
            THEN t.validationErrors =
                    <<[error |-> validatorError(t.data), config |-> t.data]>>
            ELSE t.validationErrors = <<>>
    IN  /\ \A t \in BagToSet(tasks) : t.pc \in {"reading", "callback"} => Reports(t)
        /\ (last.cycle /\ last.result.status # "error"
                /\ last.pc \in {"resolved", "rejected"}) =>
              Reports(last) /\ last.callbacks = 1
        /\ (Succeeded(last) /\ last.data \in InvalidConfigs) =>
              /\ last.result.status \in {"loaded", "updated", "equal"}
              /\ last.event.configuration = transformer(last.data)
              /\ last.writes = 1
              /\ ~Truthy(last.cbRet) => cache = transformer(last.data)

C15_Witness ==
    /\ Succeeded(last) /\ last.data = "B" /\ validatorRejects("B")
    /\ Len(last.validationErrors) = 1
    /\ last.cbRet = Undefined /\ cache = "B"

\* C16: a cycle in which every fetch raises or resolves with a falsy value
\* calls the callback once, with the error event carrying the
\* ConfigurationFailedError.
C16_CallbackOnFailure ==
    (walk.done /\ FirstTruthy(walk.plan) = 0) =>
        /\ last.callbacks = 1
        /\ last.event.status = "error"
        /\ last.event.error = ConfigurationFailedError(endpoints)

\* C17: a getConfiguration that resolves with a configuration, from the cache
\* or from the endpoints, has called the callback.
C17_GetConfigurationCallsCallback ==
    (last.op = "getConfiguration" /\ last.pc = "resolved"
        /\ last.result.status # "error") => last.callbacks >= 1

\* C18: without override, a getConfiguration leaves the cache, the loaded and
\* paused flags, the timers and this.timeoutId as they are when it is called;
\* when its cache read settles with a truthy value it resolves with that value
\* and status cached, has fetched and written nothing and again leaves all of
\* these as they are; with a falsy value it goes on as a refresh, fetching.
C18_CacheHitFrame ==
    [][~Truthy(override) =>
        /\ getConfiguration => UNCHANGED <<cache, loaded, paused, timers, timeoutId>>
        /\ \A t \in BagToSet(tasks) :
              GetConfigurationRead(t) =>
                  IF Truthy(t.source)
                  THEN /\ last'.pc = "resolved" /\ ~last'.cycle
                       /\ last'.result = [status |-> "cached", endpoint |-> Undefined,
                                           configuration |-> t.source, error |-> NoError]
                       /\ last'.fetches = 0 /\ last'.writes = 0
                       /\ last'.scheduled = <<>>
                       /\ BagCardinality(tasks') = BagCardinality(tasks) - 1
                       /\ UNCHANGED <<cache, loaded, paused, timers, timeoutId>>
                  ELSE \E u \in BagToSet(tasks') :
                          /\ u.pc = "fetching" /\ u.cycle /\ u.op = "getConfiguration"
                          /\ CopiesIn(u, tasks') = CopiesIn(u, tasks) + 1]_vars

C18_Witness ==
    /\ ~Truthy(override) /\ interval = 5
    /\ last.op = "getConfiguration" /\ last.pc = "resolved" /\ ~last.cycle
    /\ last.result.status = "cached" /\ last.result.configuration = "B"
    /\ timers # <<>> /\ loaded /\ paused

\* C19: without override, when a refresh has begun and is fetching, no timer is
\* live: every timer scheduled before it began has been cancelled.
C19_RefreshCancelsTimers ==
    [][(/\ ~Truthy(override)
        /\ \E u \in BagToSet(tasks') :
              u.pc = "fetching" /\ CopiesIn(u, tasks') > CopiesIn(u, tasks)) =>
          timers' = <<>>]_vars

\* C20: the constructor, given no endpoints (missing or empty) or no callback,
\* throws an OptionsError holding the options it was given and returns no
\* client: no call is started, no timer is live and the cache is as it was,
\* whatever options.initialize is; given both it returns a client; and while
\* there is no client no call is in flight and no timer is live.
C20_BadOptionsThrow ==
    [][/\ constructor =>
            IF endpoints \in {MissingEndpoints, <<>>} \/ ~callback
            THEN /\ thrown'.name = "OptionsError"
                 /\ thrown'.message = IF endpoints \in {MissingEndpoints, <<>>}
                                       THEN "Missing endpoints"
                                       ELSE "Missing callback method"
                 /\ \E initialize \in BOOLEAN :
                       thrown'.options =
                           [override |-> override, interval |-> interval,
                            endpoints |-> endpoints, cache |-> cache,
                            callback |-> callback, initialize |-> initialize]
                 /\ ~constructed'
                 /\ tasks' = EmptyBag /\ timers' = <<>> /\ timeoutId' = 0
                 /\ cache' = cache
            ELSE constructed' /\ thrown' = NoThrow
       /\ ~constructed' => tasks' = EmptyBag /\ timers' = <<>> /\ cache' = cache]_vars

C20_Witness ==
    /\ thrown # NoThrow /\ ~constructed
    /\ thrown.message = "Missing callback method"
    /\ thrown.options.initialize /\ thrown.options.endpoints = <<"e1", "e2">>
    /\ tasks = EmptyBag /\ timers = <<>>

\* C21 as stated: with valid options and initialize true the constructor starts
\* exactly one refresh and returns without waiting for it; with initialize
\* absent or false no call is in flight, hence no fetch is issued, as long as
\* the caller has invoked neither getConfiguration nor refresh.
C21_NoFetchBeforeFirstCall ==
    (constructed /\ ~hist.called) => tasks = EmptyBag

\* C21 (amended): with valid options and initialize true the constructor starts
\* exactly one refresh (a cycle at its fetch, or getOverride at its callback in
\* override mode) and returns with it in flight; with initialize absent or
\* false it starts no call and no timer.  Until getConfiguration or refresh is
\* invoked, the only calls in flight are refreshes run by a timer, and from
\* the state without call and timer only resume() brings a timer.
C21_InitializeStartsOneRefresh ==
    [][/\ (~constructed /\ Construct(TRUE) /\ constructed') =>
              /\ BagCardinality(tasks') = 1
              /\ \E t \in BagToSet(tasks') :
                    /\ t.op = "refresh"
                    /\ t.pc = (IF Truthy(override) THEN "ovcallback" ELSE "fetching")
                    /\ t.fetches = 0
              /\ ~loaded'
       /\ (~constructed /\ Construct(FALSE) /\ constructed') =>
              tasks' = EmptyBag /\ timers' = <<>> /\ ~hist'.called
       /\ (constructed /\ ~hist.called) =>
              /\ \A t \in BagToSet(tasks) : t.op = "timer"
              /\ (tasks = EmptyBag /\ timers = <<>> /\ timers' # <<>>) => resume
              /\ (tasks = EmptyBag /\ timers = <<>> /\ tasks' # EmptyBag) =>
                    (getConfiguration \/ refresh)]_vars

C21_Witness ==
    /\ constructed /\ hist.called /\ ~loaded
    /\ BagCardinality(tasks) = 1
    /\ \E t \in BagToSet(tasks) : t.op = "refresh" /\ t.pc = "fetching" /\ t.fetches = 0
    /\ timers = <<>> /\ last = IdleTask

\* C22: when the consumer callback raises during a non-override cycle, the call
\* rejects and the cycle stops there: it has written the cache no time, the
\* loaded flag, the cache and the timers are as they were, and it has scheduled
\* no timer.
C22_CallbackRaiseStopsCycle ==
    [][\A t \in BagToSet(tasks) :
          (RefreshCallback(t) /\ last'.pc = "rejected") =>
              /\ last'.cycle
              /\ last'.result = NoEvent
              /\ last'.writes = 0
              /\ last'.scheduled = <<>>
              /\ tasks' = Take(tasks, t)
              /\ UNCHANGED <<cache, pending, loaded, timers, timeoutId>>]_vars

C22_Witness ==
    /\ last.pc = "rejected" /\ last.cycle /\ last.callbacks = 1
    /\ last.op = "getConfiguration"
    /\ ~loaded /\ cache = Undefined /\ timers = <<>>
    /\ interval = 5 /\ ~paused

\* C23: the application is notified only when the configuration changes: a
\* cycle run by the polling timer whose configuration equals the cached one
\* (status equal) has invoked the callback no time.
C23_NoCallbackWhenEqual ==
    \A t \in BagToSet(tasks) \cup {last} :
        (t.cycle /\ t.op = "timer" /\ t.event.status = "equal") => t.callbacks = 0

\* C24: when interval is absent or 0 no timer is ever live and this.timeoutId
\* is never set: no step of the client, a successful cycle and resume()
\* included, schedules a timer, and no call is ever run by a timer.
C24_NoPollingWithoutInterval ==
    [][interval = 0 =>
          /\ timers = <<>> /\ timers' = <<>>
          /\ timeoutId = 0 /\ timeoutId' = 0
          /\ last'.scheduled = <<>>
          /\ \A t \in BagToSet(tasks') : t.op # "timer"
          /\ resume => ~paused']_vars

C24_Witness ==
    /\ interval = 0
    /\ Succeeded(last) /\ ~last.sawPaused /\ ~paused
    /\ last.scheduled = <<>> /\ timers = <<>> /\ timeoutId = 0

\* C25: the default cache provider is one slot: a read resolves with undefined
\* before any write, and after any sequence of writes with the value of the
\* most recent one.
C25_SingleSlot ==
    LET latest == IF written = <<>> THEN Undefined ELSE written[Len(written)]
    IN  /\ read(cache) = latest
        /\ got # NoRead => got = latest

C25_Witness ==
    /\ written = <<"A", Undefined, "B">>
    /\ got = "B"

\* C26: within a cycle the steps come in the order of the code: the fetches
\* one at a time in list order, then the validator, then the read of the prior
\* value, then transformer, comparison and the call of the callback, then the
\* cache write and the timer.  A cycle waiting for its fetches has done nothing
\* else; one waiting for the validator has a truthy value and has neither
\* reported nor read; one waiting for the read has heard the validator and has
\* no candidate yet; one waiting for the callback has its candidate and event
\* and has neither written the cache nor scheduled a timer; a cycle that ended
\* well has called the callback once and written once.
C26_StepOrder ==
    /\ walk.done => walk.fetched = [k \in 1..Len(walk.fetched) |-> k]
    /\ \A t \in BagToSet(tasks) \cup {last} :
          t.cycle =>
            LET base == IF t.op = "getConfiguration" THEN 1 ELSE 0
                fresh == /\ t.target = Undefined /\ t.event = NoEvent
                         /\ t.callbacks = 0 /\ t.writes = 0 /\ t.scheduled = <<>>
            IN  CASE t.pc = "fetching" ->
                        /\ t.fetches = 0 /\ t.validationErrors = <<>>
                        /\ t.reads = base /\ fresh
                  [] t.pc = "validating" ->
                        /\ t.fetches >= 1 /\ Truthy(t.data)
                        /\ t.validationErrors = <<>>
                        /\ t.reads = base /\ fresh
                  [] t.pc = "reading" ->
                        /\ t.fetches >= 1
                        /\ (t.validationErrors # <<>>) = validatorRejects(t.data)
                        /\ t.reads = base + 1 /\ fresh
                  [] t.pc = "callback" ->
                        /\ t.reads = base + 1
                        /\ t.target = transformer(t.data)
                        /\ t.event.configuration = t.target
                        /\ t.event.status \in {"loaded", "updated", "equal"}
                        /\ t.callbacks = 1
                        /\ t.writes = 0 /\ t.scheduled = <<>>
                  [] t.pc = "rejected" ->
                        t.callbacks = 1 /\ t.writes = 0 /\ t.scheduled = <<>>
                  [] t.pc = "resolved" ->
                        IF t.result.status = "error"
                        THEN /\ t.reads = base /\ fresh
                        ELSE /\ t.fetches >= 1 /\ t.reads = base + 1
                             /\ t.callbacks = 1 /\ t.writes = 1
                  [] OTHER -> FALSE

C26_Witness ==
    /\ Succeeded(last) /\ last.op = "refresh"
    /\ last.fetches = 2 /\ last.validationErrors # <<>>
    /\ last.callbacks = 1 /\ last.writes = 1 /\ last.scheduled # <<>>

C28_WriteCompletedOnResolve ==
    /\ Succeeded(last) =>
          pending = <<>> /\ read(cache) = last.result.configuration
    /\ \A t \in BagToSet(tasks) \cup {last} :
          (~Truthy(override) /\ t.afterGet /\ t.pc # "idle") =>
              ~t.cycle /\ Truthy(t.source)

\* the values a cycle has at hand: its candidate, the configuration of the
\* event it hands to the callback and of the event it returns
Handled(t) == {t.target, t.event.configuration, t.result.configuration}

\* C29 as stated: for every transformer the candidate configuration (handed to
\* the callback, compared, written and returned) is a truthy value or
\* undefined, never another falsy value.
C29_CandidateNormalized ==
    /\ \A t \in BagToSet(tasks) \cup {last} :
          t.cycle => \A v \in Handled(t) : Truthy(v) \/ v = Undefined
    /\ Truthy(cache) \/ cache = Undefined
    /\ \A k \in 1..Len(pending) : Truthy(pending[k]) \/ pending[k] = Undefined

\* C29 (amended): the default transformer hands on a truthy value and turns
\* every falsy one into undefined; the cycle takes as candidate exactly what
\* this.transformer returns for the fetched value, so with the default
\* transformer every value it handles, writes or returns is truthy or
\* undefined.
C29_DefaultTransformerNormalizes ==
    /\ \A c \in CacheValues :
          defaultTransformer(c) = (IF Truthy(c) THEN c ELSE Undefined)
    /\ \A t \in BagToSet(tasks) \cup {last} :
          ((t.cycle /\ t.pc \in {"callback", "rejected"}) \/ Succeeded(t)) =>
              t.target = transformer(t.data)
    /\ transform = "default" =>
          /\ \A t \in BagToSet(tasks) \cup {last} :
                t.cycle => \A v \in Handled(t) : Truthy(v) \/ v = Undefined
          /\ Truthy(cache) \/ cache = Undefined
          /\ \A k \in 1..Len(pending) : Truthy(pending[k])

C29_Witness ==
    /\ transform = "default"
    /\ Succeeded(last) /\ last.cbRet = Undefined
    /\ last.data = "B" /\ last.target = "B"
    /\ last.result.configuration = "B" /\ cache = "B"

\* C30 as stated: once the cache holds a truthy configuration, no step of the
\* client leaves it holding undefined or another falsy value.
C30_CacheNeverCleared ==
    [][Truthy(cache) => Truthy(cache')]_vars

\* C30 (amended): with the default transformer every configuration a cycle
\* writes is truthy, so once the cache holds a truthy configuration no step of
\* the client leaves it holding undefined or another falsy value.
C30_CacheKeptWithDefaultTransformer ==
    [][transform = "default" =>
          /\ Truthy(cache) => Truthy(cache')
          /\ \A k \in 1..Len(pending') : Truthy(pending'[k])
          /\ cache' # cache => Truthy(cache')]_vars

C30_Witness ==
    /\ transform = "default"
    /\ hist.succeeded /\ Succeeded(last)
    /\ last.result.status = "updated" /\ last.cbRet = Undefined
    /\ Truthy(cache) /\ cache = last.target

\* C31 as stated: the loaded flag is false until the first successful
\* non-override cycle completes: whenever it is true, a cycle has succeeded.
C31_LoadedOnlyAfterCycle ==
    loaded => hist.succeeded

\* C31 (amended): the loaded flag is false when the constructor returns; the
\* only steps that change it set it to true, and they are the end of a
\* successful non-override cycle and, in override mode, the callback of
\* getOverride resolving; a failed cycle, a callback that raises, a cache-hit
\* getConfiguration, pause and resume leave it unchanged; once true it is
\* never reset to false.
C31_LoadedFlag ==
    [][/\ (~constructed /\ constructed') => ~loaded'
       /\ constructed =>
            /\ loaded => loaded'
            /\ (~loaded /\ loaded') =>
                  /\ last'.pc = "resolved" /\ last'.callbacks = 1
                  /\ IF Truthy(override)
                     THEN ~last'.cycle /\ last'.result.status = "cached"
                     ELSE Succeeded(last')
            /\ (last'.pc = "rejected" \/ last'.result.status \in {"error", "cached"}) =>
                  (~Truthy(override) => loaded' = loaded)
            /\ (pause \/ resume) => loaded' = loaded
            /\ (~Truthy(override) /\ ~hist'.succeeded) => ~loaded']_vars

C31_Witness ==
    /\ constructed /\ ~Truthy(override)
    /\ ~loaded /\ paused
    /\ last.cycle /\ last.pc = "resolved" /\ last.result.status = "error"
    /\ hist.called /\ ~hist.succeeded

\* C32: a cycle returns status error only when the endpoint list is exhausted:
\* fetch has then been invoked once on every endpoint of the list, in list
\* order, also when the list contains an empty string.
C32_ErrorOnlyWhenExhausted ==
    (walk.done /\ last.cycle /\ last.pc = "resolved" /\ last.result.status = "error") =>
        walk.fetched = [k \in 1..Len(endpoints) |-> k]

\* C35: no step changes this.endpoints, and every walk of tryFetch starts at
\* the first endpoint and goes on in list order, whatever earlier cycles
\* fetched or returned: the positions it fetches are 1, 2, ... up to the
\* position where it stops.
C35_EndpointsImmutable ==
    [][/\ endpoints' = endpoints
       /\ walk'.done =>
            LET n == Len(walk'.fetched)
            IN  /\ walk'.fetched = [k \in 1..n |-> k]
                /\ Truthy(endpoints[1]) => n >= 1
                /\ walk'.endpoint \in {endpoints[k] : k \in 1..Len(endpoints)} \cup {Undefined}
                /\ (last'.cycle /\ last'.result.status = "error") =>
                      last'.result.error.endpoints = endpoints]_vars

C35_Witness ==
    /\ hist.succeeded /\ loaded
    /\ endpoints = <<"e1", "e2">>
    /\ walk.done /\ walk.fetched = <<1, 2>> /\ walk.endpoint = "e2"
    /\ walk.plan[1] = Raise

\* the cycles whose callback has been handed an event with status loaded and
\* has not settled yet
LoadedDelivered ==
    {t \in BagToSet(tasks) : t.cycle /\ t.pc = "callback" /\ t.event.status = "loaded"}

\* C34: for a non-override client at most one event with status loaded is ever
\* delivered to the callback: no two cycles are at their callback with status
\* loaded, and once a cycle has succeeded no cycle is at its callback with
\* status loaded.
C34_AtMostOneLoadedEvent ==
    ~Truthy(override) =>
        /\ Cardinality(LoadedDelivered) <= 1
        /\ \A t \in LoadedDelivered : CopiesIn(t, tasks) = 1
        /\ hist.succeeded => LoadedDelivered = {}

\* a refresh run by a timer is at its fetch
TimerRefreshFetching ==
    \E t \in BagToSet(tasks) : t.op = "timer" /\ t.cycle /\ t.pc = "fetching"

\* C33: on a polling client that is never paused, whose cycles all succeed and
\* whose callback never raises, every successful cycle is eventually followed
\* by a refresh that a timer runs, with no further call by the consumer; so
\* once a cycle has succeeded, timer-run refreshes occur again and again.
C33_PollingSustainsItself ==
    /\ Succeeded(last) ~> TimerRefreshFetching
    /\ hist.succeeded ~> TimerRefreshFetching

C33_Witness ==
    /\ hist.succeeded /\ loaded /\ ~paused
    /\ TimerRefreshFetching
    /\ timers = <<>>

====
